---- MODULE Spec2Model ----
(***************************************************************************)
(* Model of mcp-server-mysql (src/src/index.ts): the permission gate, the  *)
(* read-only validator, the SQL statement builders, the connection pool    *)
(* life cycle and the tool dispatch.                                       *)
(*                                                                         *)
(* src/src/index.ts holds two complete servers.  Lines 1-700 register one  *)
(* CallToolRequest handler on the low-level Server class (api = "Server"); *)
(* lines 702-1354 register one callback per tool on McpServer              *)
(* (api = "McpServer").  A process runs one of them; the model chooses     *)
(* which in Init and keeps both.                                           *)
(*                                                                         *)
(* Strings are TLA+ strings, handled as the code handles them (trim,       *)
(* toUpperCase, startsWith, template concatenation).  A TLA+ string        *)
(* literal cannot hold a back-quote, so the MySQL identifier delimiter is  *)
(* written BQ.                                                             *)
(***************************************************************************)
EXTENDS Integers, Sequences, FiniteSets, TLC

VARIABLES
    api,            \* which server of index.ts this process runs
    ALLOW_INSERT,   \* index.ts:713
    ALLOW_UPDATE,   \* index.ts:714
    ALLOW_DELETE,   \* index.ts:715
    env,            \* process.env, the MYSQL_* connection variables
    pool,           \* index.ts:710  let pool: Pool | null (0 is null, else an id)
    pools,          \* every pool mysql.createPool has constructed, by id
    req,            \* the tool calls in flight, one per slot
    call            \* the last application of a pure function (function specs)

vars == <<api, ALLOW_INSERT, ALLOW_UPDATE, ALLOW_DELETE, env, pool, pools, req, call>>

(***************************************************************************)
(* JavaScript string primitives                                            *)
(***************************************************************************)

\* The characters String.prototype.trim removes (white space and line ends).
WhiteSpace == {" ", "\t", "\n", "\r"}

LowerLetters == "abcdefghijklmnopqrstuvwxyz"
UpperLetters == "ABCDEFGHIJKLMNOPQRSTUVWXYZ"

CharAt(s, i) == SubSeq(s, i, i)

\* The one element of a singleton.  An operand bound in a set, as in
\* The({F(x) : x \in {e}}), is evaluated once however often F uses it.
The(S) == CHOOSE x \in S : TRUE

ToUpperChar(c) ==
    IF \E i \in 1..26 : CharAt(LowerLetters, i) = c
    THEN CharAt(UpperLetters, CHOOSE i \in 1..26 : CharAt(LowerLetters, i) = c)
    ELSE c

ToLowerChar(c) ==
    IF \E i \in 1..26 : CharAt(UpperLetters, i) = c
    THEN CharAt(LowerLetters, CHOOSE i \in 1..26 : CharAt(UpperLetters, i) = c)
    ELSE c

RECURSIVE toUpperCase(_)
toUpperCase(s) ==
    IF s = "" THEN ""
    ELSE The({ToUpperChar(c) \o toUpperCase(t) : c \in {CharAt(s, 1)}, t \in {Tail(s)}})

RECURSIVE toLowerCase(_)
toLowerCase(s) ==
    IF s = "" THEN ""
    ELSE The({ToLowerChar(c) \o toLowerCase(t) : c \in {CharAt(s, 1)}, t \in {Tail(s)}})

RECURSIVE trimStart(_)
trimStart(s) ==
    IF s # "" /\ CharAt(s, 1) \in WhiteSpace THEN trimStart(Tail(s)) ELSE s

RECURSIVE trimEnd(_)
trimEnd(s) ==
    IF s # "" /\ CharAt(s, Len(s)) \in WhiteSpace
    THEN trimEnd(SubSeq(s, 1, Len(s) - 1))
    ELSE s

trim(s) == trimEnd(trimStart(s))

startsWith(s, k) == Len(s) >= Len(k) /\ SubSeq(s, 1, Len(k)) = k

(***************************************************************************)
(* Permission gate                                                         *)
(***************************************************************************)

NoThrow == [threw |-> FALSE, message |-> ""]
Throw(msg) == [threw |-> TRUE, message |-> msg]

\* checkSqlPermission without the toUpperCase of line 733
\* the three tests, the last of them extended to DROP
PermissionOfDropToo(normalizedSql) ==
    IF ~ALLOW_INSERT /\ startsWith(normalizedSql, "INSERT")
    THEN Throw("INSERT operations are disabled. Set MYSQL_ALLOW_INSERT=true to enable.")
    ELSE IF ~ALLOW_UPDATE /\ startsWith(normalizedSql, "UPDATE")
    THEN Throw("UPDATE operations are disabled. Set MYSQL_ALLOW_UPDATE=true to enable.")
    ELSE IF ~ALLOW_DELETE
            /\ (startsWith(normalizedSql, "DELETE") \/ startsWith(normalizedSql, "DROP"))
    THEN Throw("DELETE operations are disabled. Set MYSQL_ALLOW_DELETE=true to enable.")
    ELSE NoThrow

\* index.ts:735-743 (and 37-45): the three tests on the normalized text
PermissionOf(normalizedSql) ==
    IF ~ALLOW_INSERT /\ startsWith(normalizedSql, "INSERT")
    THEN Throw("INSERT operations are disabled. Set MYSQL_ALLOW_INSERT=true to enable.")
    ELSE IF ~ALLOW_UPDATE /\ startsWith(normalizedSql, "UPDATE")
    THEN Throw("UPDATE operations are disabled. Set MYSQL_ALLOW_UPDATE=true to enable.")
    ELSE IF ~ALLOW_DELETE /\ startsWith(normalizedSql, "DELETE")
    THEN Throw("DELETE operations are disabled. Set MYSQL_ALLOW_DELETE=true to enable.")
    ELSE NoThrow

\* checkSqlPermission without the toUpperCase of line 733
checkSqlPermissionCaseSensitive(sql) ==
    The({PermissionOf(normalizedSql) : normalizedSql \in {trim(sql)}})

\* index.ts:732-744 (and, identically, 34-46)
checkSqlPermission(sql) ==
    The({PermissionOf(normalizedSql) : normalizedSql \in {toUpperCase(trim(sql))}})

\* the list of lines 751-765 without its last entry
forbiddenKeywordsShort ==
    << "INSERT", "UPDATE", "DELETE", "DROP", "CREATE", "ALTER", "TRUNCATE",
       "RENAME", "REPLACE", "GRANT", "REVOKE", "LOCK" >>

\* index.ts:751-765
forbiddenKeywords ==
    << "INSERT", "UPDATE", "DELETE", "DROP", "CREATE", "ALTER", "TRUNCATE",
       "RENAME", "REPLACE", "GRANT", "REVOKE", "LOCK", "UNLOCK" >>

ReadOnlyMessage(keyword) ==
    keyword \o " operations are not allowed in query tool. Use the execute tool for data modifications or appropriate DDL tools for schema changes."

\* index.ts:767-773, the for loop from position i on
RECURSIVE ReadOnlyLoop(_, _)
ReadOnlyLoop(normalizedSql, i) ==
    IF i > Len(forbiddenKeywords) THEN NoThrow
    ELSE IF startsWith(normalizedSql, forbiddenKeywords[i])
         THEN Throw(ReadOnlyMessage(forbiddenKeywords[i]))
         ELSE ReadOnlyLoop(normalizedSql, i + 1)

\* index.ts:747-774
validateReadOnlyQuery(sql) ==
    The({ReadOnlyLoop(normalizedSql, 1) : normalizedSql \in {toUpperCase(trim(sql))}})

(***************************************************************************)
(* Optional values and JavaScript coercions                                *)
(*   an optional value is <<>> (undefined) or <<v>>                        *)
(***************************************************************************)

Undefined == <<>>
Some(v) == <<v>>

\* a || b on strings: the empty string and undefined are falsy
TruthyStr(a) == a # Undefined /\ a[1] # ""
\* a flag tested for presence instead of truth
TruthyBoolPresent(a) == a # Undefined
\* a ? x : y on a flag
TruthyBool(a) == a # Undefined /\ a[1] = TRUE

\* `${x}` of an optional string
Interpolate(a) == IF a = Undefined THEN "undefined" ELSE a[1]

\* parseInt yields NaN when the text does not start with a digit; NaN is
\* written as the number below, which no unsigned text parses to.
NaN == 0 - 1
TruthyNum(n) == n # 0 /\ n # NaN

Digits == "0123456789"
IsDigit(c) == \E i \in 1..10 : CharAt(Digits, i) = c
DigitValue(c) == (CHOOSE i \in 1..10 : CharAt(Digits, i) = c) - 1

RECURSIVE ParseDigits(_, _, _)
ParseDigits(s, acc, any) ==
    IF s # "" /\ IsDigit(CharAt(s, 1))
    THEN ParseDigits(Tail(s), acc * 10 + DigitValue(CharAt(s, 1)), TRUE)
    ELSE IF any THEN acc ELSE NaN

\* parseInt(s, 10) on unsigned text
parseInt(s) == ParseDigits(trimStart(s), 0, FALSE)

(***************************************************************************)
(* Connection configuration                                                *)
(***************************************************************************)

\* index.ts:718-729 (waitForConnections, connectionLimit and queueLimit are
\* the same literals in every configuration and are left out)
getConnectionConfig ==
    [ host     |-> IF TruthyStr(env.MYSQL_HOST) THEN env.MYSQL_HOST[1] ELSE "localhost",
      port     |-> parseInt(IF TruthyStr(env.MYSQL_PORT) THEN env.MYSQL_PORT[1] ELSE "3306"),
      user     |-> IF TruthyStr(env.MYSQL_USER) THEN env.MYSQL_USER[1] ELSE "root",
      password |-> IF TruthyStr(env.MYSQL_PASSWORD) THEN env.MYSQL_PASSWORD[1] ELSE "",
      database |-> env.MYSQL_DATABASE ]

\* index.ts:802-811 (and 342-351): the configuration connect builds from its
\* arguments, each an optional value
ConnectConfig(args) ==
    [ host     |-> IF TruthyStr(args.host) THEN args.host[1]
                   ELSE IF TruthyStr(env.MYSQL_HOST) THEN env.MYSQL_HOST[1]
                   ELSE "localhost",
      port     |-> IF args.port # Undefined /\ TruthyNum(args.port[1]) THEN args.port[1]
                   ELSE parseInt(IF TruthyStr(env.MYSQL_PORT) THEN env.MYSQL_PORT[1]
                                 ELSE "3306"),
      user     |-> IF TruthyStr(args.user) THEN args.user[1]
                   ELSE IF TruthyStr(env.MYSQL_USER) THEN env.MYSQL_USER[1]
                   ELSE "root",
      password |-> IF TruthyStr(args.password) THEN args.password[1]
                   ELSE IF TruthyStr(env.MYSQL_PASSWORD) THEN env.MYSQL_PASSWORD[1]
                   ELSE "",
      database |-> args.database ]

(***************************************************************************)
(* SQL statement builders                                                  *)
(***************************************************************************)

\* the back-quote character
BQ == "'"

RECURSIVE join(_, _)
join(parts, sep) ==
    IF Len(parts) = 0 THEN ""
    ELSE IF Len(parts) = 1 THEN parts[1]
    ELSE parts[1] \o sep \o join(Tail(parts), sep)

\* the target without the test on database
TableNameUnqualified(database, table) == BQ \o table \o BQ

\* index.ts:1032 (the same expression at 976, 1066, 1120, 1235, 1276)
TableName(database, table) ==
    IF TruthyStr(database)
    THEN BQ \o database[1] \o BQ \o "." \o BQ \o table \o BQ
    ELSE BQ \o table \o BQ

\* the callback of columns.map with lines 1027 and 1028 exchanged
ColumnDefKeyFirst(col) ==
    LET def0 == BQ \o col.name \o BQ \o " " \o col.type
        def1 == IF col.nullable = Some(FALSE) THEN def0 \o " NOT NULL" ELSE def0
        def2 == IF TruthyBool(col.autoIncrement) THEN def1 \o " AUTO_INCREMENT" ELSE def1
        def3 == IF TruthyBool(col.primaryKey) THEN def2 \o " PRIMARY KEY" ELSE def2
        def4 == IF col.default # Undefined
                THEN def3 \o " DEFAULT " \o col.default[1] ELSE def3
    IN def4

\* index.ts:1023-1030, the callback of columns.map
ColumnDef(col) ==
    LET def0 == BQ \o col.name \o BQ \o " " \o col.type
        def1 == IF col.nullable = Some(FALSE) THEN def0 \o " NOT NULL" ELSE def0
        def2 == IF TruthyBool(col.autoIncrement) THEN def1 \o " AUTO_INCREMENT" ELSE def1
        def3 == IF col.default # Undefined
                THEN def2 \o " DEFAULT " \o col.default[1] ELSE def2
        def4 == IF TruthyBool(col.primaryKey) THEN def3 \o " PRIMARY KEY" ELSE def3
    IN def4

\* index.ts:1023-1033
CreateTableSql(table, columns, database) ==
    LET columnDefs == [i \in 1..Len(columns) |-> ColumnDef(columns[i])] IN
    "CREATE TABLE " \o TableName(database, table) \o " (" \o join(columnDefs, ", ") \o ")"

\* index.ts:1066-1084: the statement, or the error of the default branch
AlterTableSql(table, operation, column, definition, newName, database) ==
    LET tableName == TableName(database, table) IN
    CASE operation = "ADD" ->
           [threw |-> FALSE, message |-> "",
            sql |-> "ALTER TABLE " \o tableName \o " ADD COLUMN " \o BQ \o column \o BQ
                    \o " " \o Interpolate(definition)]
      [] operation = "DROP" ->
           [threw |-> FALSE, message |-> "",
            sql |-> "ALTER TABLE " \o tableName \o " DROP COLUMN " \o BQ \o column \o BQ]
      [] operation = "MODIFY" ->
           [threw |-> FALSE, message |-> "",
            sql |-> "ALTER TABLE " \o tableName \o " MODIFY COLUMN " \o BQ \o column \o BQ
                    \o " " \o Interpolate(definition)]
      [] operation = "RENAME" ->
           [threw |-> FALSE, message |-> "",
            sql |-> "ALTER TABLE " \o tableName \o " RENAME COLUMN " \o BQ \o column \o BQ
                    \o " TO " \o BQ \o Interpolate(newName) \o BQ]
      [] OTHER ->
           [threw |-> TRUE, message |-> "Unknown operation: " \o operation, sql |-> ""]

\* index.ts:1120-1121
DropTableSql(table, database) == "DROP TABLE " \o TableName(database, table)

\* index.ts:1148-1153
CreateDatabaseSql(database, charset, collation) ==
    LET cs  == IF TruthyStr(charset) THEN charset[1] ELSE "utf8mb4"
        col == IF TruthyStr(collation) THEN collation[1] ELSE "utf8mb4_unicode_ci"
    IN "CREATE DATABASE " \o BQ \o database \o BQ \o " CHARACTER SET " \o cs
       \o " COLLATE " \o col

\* index.ts:1179
DropDatabaseSql(database) == "DROP DATABASE " \o BQ \o database \o BQ

\* index.ts:1205
UseDatabaseSql(database) == "USE " \o BQ \o database \o BQ

\* index.ts:1235-1241
CreateIndexSql(table, indexName, columns, unique, database) ==
    LET tableName  == TableName(database, table)
        columnList == join([i \in 1..Len(columns) |-> BQ \o columns[i] \o BQ], ", ")
        uniqueStr  == IF TruthyBool(unique) THEN "UNIQUE " ELSE ""
    IN "CREATE " \o uniqueStr \o "INDEX " \o BQ \o indexName \o BQ \o " ON "
       \o tableName \o " (" \o columnList \o ")"

\* index.ts:1276-1277
DropIndexSql(table, indexName, database) ==
    "DROP INDEX " \o BQ \o indexName \o BQ \o " ON " \o TableName(database, table)

\* index.ts:943-946
ListTablesSql(database) ==
    IF TruthyStr(database) THEN "SHOW TABLES FROM " \o BQ \o database[1] \o BQ
    ELSE "SHOW TABLES"

\* index.ts:976-977
DescribeTableSql(table, database) == "DESCRIBE " \o TableName(database, table)

(***************************************************************************)
(* Backing store and driver (mysql2), as far as the handlers observe them  *)
(***************************************************************************)

\* The hosts on which no server answers: a pool configured for one of them
\* never yields a connection.
UnreachableHosts == {"down.example"}
ServerAccepts(config) == config.host \notin UnreachableHosts

PoolClosedMessage == "Pool is closed."
ConnectionRefusedMessage == "connect ECONNREFUSED"
StatementFailedMessage == "ER_BACKING_STORE"
PingFailedMessage == "ER_PING"
EndFailedMessage == "ER_POOL_END"

\* mysql.createPool(config): the pool is open
NewPool(config) == [config |-> config, closed |-> FALSE]

\* what is left of a closed pool once nothing refers to it
Collected ==
    [ config |-> [host |-> "", port |-> 0, user |-> "", password |-> "",
                  database |-> Undefined],
      closed |-> TRUE ]

\* A pool that is open and whose server answers
Usable(id) == id # 0 /\ ~pools[id].closed /\ ServerAccepts(pools[id].config)

LivePools == {id \in 1..Len(pools) : ~pools[id].closed}

(***************************************************************************)
(* Bounds and inputs                                                       *)
(***************************************************************************)

MaxInFlight == 2     \* tool calls in flight at once
MaxPools == 3        \* pools constructed in one run
MaxColumns == 2      \* columns in a create_table call with several columns

Slots == 1..MaxInFlight

EnvUnset ==
    [ MYSQL_HOST |-> Undefined, MYSQL_PORT |-> Undefined, MYSQL_USER |-> Undefined,
      MYSQL_PASSWORD |-> Undefined, MYSQL_DATABASE |-> Undefined ]
EnvSet ==
    [ MYSQL_HOST |-> Some("db.internal"), MYSQL_PORT |-> Some("3307"),
      MYSQL_USER |-> Some("app"), MYSQL_PASSWORD |-> Some("secret"),
      MYSQL_DATABASE |-> Some("appdb") ]
Envs == {EnvUnset, EnvSet}

NoConnectArgs ==
    [ host |-> Undefined, port |-> Undefined, user |-> Undefined,
      password |-> Undefined, database |-> Undefined ]
ConnectArgs ==
    { NoConnectArgs,
      [NoConnectArgs EXCEPT !.database = Some("x")],
      [NoConnectArgs EXCEPT !.host = Some("down.example")],
      [NoConnectArgs EXCEPT !.password = Some("")],
      [ host |-> Some("h2"), port |-> Some(3308), user |-> Some("u2"),
        password |-> Some("p2"), database |-> Some("d2") ] }

\* statements given to query and execute in the dispatch specification
MainSql ==
    { "SELECT 1", "  insert into t values (1)", "Update t set a = 1",
      "DELETE FROM t", "drop table t" }

NoDatabase == [database |-> Undefined]

\* the README's create_table example (src/unnamed/part_000:131-140)
ReadmeColumns ==
    << [ name |-> "id", type |-> "INT", nullable |-> Undefined,
         primaryKey |-> Some(TRUE), autoIncrement |-> Some(TRUE), default |-> Undefined ],
       [ name |-> "email", type |-> "VARCHAR(255)", nullable |-> Some(FALSE),
         primaryKey |-> Undefined, autoIncrement |-> Undefined, default |-> Undefined ] >>

AlterArgs ==
    { [ table |-> "t", operation |-> o, column |-> "a", definition |-> d,
        newName |-> n, database |-> Undefined ] :
        o \in {"ADD", "DROP", "MODIFY", "RENAME"},
        d \in {Undefined, Some("INT")}, n \in {Undefined, Some("b")} }

\* alter_table arguments in which the companion field of the operation is the
\* only optional field given, or no optional field is given
AlterArgsMain ==
    { a \in AlterArgs :
        \/ a.definition = Undefined /\ a.newName = Undefined
        \/ a.operation \in {"ADD", "MODIFY"} /\ a.newName = Undefined
        \/ a.operation = "RENAME" /\ a.definition = Undefined }

\* The tool calls a client sends.  An argument that a tool may be given with or
\* without is an optional value; so is every database argument.  The McpServer
\* callbacks run only on arguments their zod schema accepts (index.ts:794-800,
\* 847-850, ...); the Server handler takes whatever the request holds.
ToolNames ==
    { "connect", "query", "execute", "list_databases", "list_tables", "describe_table",
      "create_table", "alter_table", "drop_table", "create_database", "drop_database",
      "use_database", "create_index", "drop_index", "health_check" }

ArgsOf(op, a) ==
    CASE op = "connect" -> ConnectArgs
      [] op = "query" -> {[sql |-> Some(q)] : q \in MainSql}
      [] op = "execute" ->
           {[sql |-> Some(q)] : q \in MainSql}
           \cup (IF a = "Server" THEN {[sql |-> Undefined]} ELSE {})
      [] op = "list_tables" -> {[database |-> d] : d \in {Undefined, Some("d")}}
      [] op = "describe_table" -> {[table |-> "t", database |-> Undefined]}
      [] op = "create_table" ->
           {[table |-> "t", columns |-> ReadmeColumns, database |-> Undefined]}
      [] op = "alter_table" ->
           AlterArgsMain
           \cup (IF a = "Server"
                 THEN {[ table |-> "t", operation |-> "CHANGE", column |-> "a",
                         definition |-> Some("INT"), newName |-> Undefined,
                         database |-> Undefined ]}
                 ELSE {})
      [] op = "drop_table" -> {[table |-> "t", database |-> Some("d")]}
      [] op = "create_database" ->
           {[database |-> Some("d"), charset |-> Undefined, collation |-> Undefined]}
      [] op \in {"drop_database", "use_database"} -> {[database |-> Some("d")]}
      [] op = "create_index" ->
           {[ table |-> "t", indexName |-> "ix_email", columns |-> <<"email">>,
              unique |-> u, database |-> Undefined ] : u \in {Undefined, Some(TRUE)}}
      [] op = "drop_index" ->
           {[table |-> "t", indexName |-> "ix_email", database |-> Undefined]}
      [] OTHER -> {NoDatabase}

\* the tool calls of the interleaving specification
RaceTools == {"connect", "query"}
RaceArgsOf(op) ==
    CASE op = "connect" ->
           {NoConnectArgs, [NoConnectArgs EXCEPT !.host = Some("down.example")]}
      [] op = "query" -> {[sql |-> Some("SELECT 1")]}

(***************************************************************************)
(* Tool calls in flight                                                    *)
(***************************************************************************)

Idle == [pc |-> "idle"]

\* A tool call as its handler starts:
\*   p      the pool getPool returned (0 before)
\*   made   the pool this call constructed (0 if none)
\*   old    the pool connect found and ended (0 if none)
\*   holds  the connections this call has checked out and not released
\*   sent   the statements passed to p.query / p.execute, in order
\*   tornDown  a statement was passed to a pool that was already ended
\*   probeFailed  connect's pool.getConnection() rejected
\*   thrown    the message of the error the handler raised, if any
\*   results   the Operation Results the call produced
NewCall(r) ==
    [ op |-> r.op, args |-> r.args, pc |-> "start", p |-> 0, made |-> 0, old |-> 0,
      holds |-> 0, sent |-> <<>>, tornDown |-> FALSE, probeFailed |-> FALSE,
      thrown |-> Undefined, results |-> <<>> ]

InFlight == {i \in Slots : req[i].pc \notin {"idle", "done"}}

\* the catch of lines 676-687 without line 685
CatchErrorUnmarked(message) == [isError |-> FALSE, text |-> "Error: " \o message]

\* index.ts:676-687: the catch of the CallToolRequest handler
CatchError(message) == [isError |-> TRUE, text |-> "Error: " \o message]

\* The McpServer class wraps each tool callback: an error the callback raises
\* becomes a failure result holding the error's message.
SdkToolError(message) == [isError |-> TRUE, text |-> message]

\* the text of a handler's success result (row data is not modelled)
SuccessText(c) ==
    CASE c.op = "connect" -> "Successfully connected to MySQL server"
      [] c.op \in {"query", "list_databases", "list_tables", "describe_table"} -> "[rows]"
      [] c.op = "execute" -> "{affectedRows, insertId, changedRows}"
      [] c.op = "create_table" -> "Table " \o c.args.table \o " created successfully"
      [] c.op = "alter_table" ->
           "Table " \o c.args.table \o " altered successfully (" \o c.args.operation
           \o " " \o c.args.column \o ")"
      [] c.op = "drop_table" -> "Table " \o c.args.table \o " dropped successfully"
      [] c.op = "create_database" ->
           "Database " \o c.args.database[1] \o " created successfully"
      [] c.op = "drop_database" ->
           "Database " \o c.args.database[1] \o " dropped successfully"
      [] c.op = "use_database" -> "Switched to database " \o c.args.database[1]
      [] c.op = "create_index" ->
           "Index " \o c.args.indexName \o " created successfully on " \o c.args.table
      [] c.op = "drop_index" ->
           "Index " \o c.args.indexName \o " dropped from " \o c.args.table
      [] OTHER -> "Database connection healthy"

\* the handler returns: the call ends with a success result
Return(c) ==
    [c EXCEPT !.pc = "done",
              !.results = Append(@, [isError |-> FALSE, text |-> SuccessText(c)])]

\* the handler raises: the error reaches the dispatch boundary
Raise(c, message) ==
    [c EXCEPT !.pc = "done",
              !.thrown = Some(message),
              !.results = Append(@, IF api = "Server" THEN CatchError(message)
                                    ELSE SdkToolError(message))]

\* The statement a statement tool builds from its arguments (index.ts:909-1296;
\* the Server handler builds the same texts, index.ts:419-671)
BuildStatement(c) ==
    LET a == c.args
        ok(sql) == [threw |-> FALSE, message |-> "", sql |-> sql]
    IN CASE c.op = "list_databases" -> ok("SHOW DATABASES")
         [] c.op = "list_tables" -> ok(ListTablesSql(a.database))
         [] c.op = "describe_table" -> ok(DescribeTableSql(a.table, a.database))
         [] c.op = "create_table" -> ok(CreateTableSql(a.table, a.columns, a.database))
         [] c.op = "alter_table" ->
              AlterTableSql(a.table, a.operation, a.column, a.definition, a.newName,
                            a.database)
         [] c.op = "drop_table" -> ok(DropTableSql(a.table, a.database))
         [] c.op = "create_database" ->
              ok(CreateDatabaseSql(a.database[1], a.charset, a.collation))
         [] c.op = "drop_database" -> ok(DropDatabaseSql(a.database[1]))
         [] c.op = "use_database" -> ok(UseDatabaseSql(a.database[1]))
         [] c.op = "create_index" ->
              ok(CreateIndexSql(a.table, a.indexName, a.columns, a.unique, a.database))
         [] c.op = "drop_index" -> ok(DropIndexSql(a.table, a.indexName, a.database))

StatementTools ==
    { "list_databases", "list_tables", "describe_table", "create_table", "alter_table",
      "drop_table", "create_database", "drop_database", "use_database", "create_index",
      "drop_index" }

\* p.query(sql) / p.execute(sql): the statement is handed to pool c.p
Submit(c, sql) ==
    [c EXCEPT !.pc = "executing",
              !.sent = Append(@, sql),
              !.tornDown = @ \/ pools[c.p].closed]

(***************************************************************************)
(* The state machine: one action per stretch of a handler between awaits   *)
(***************************************************************************)

Flags == BOOLEAN

Init ==
    /\ api \in {"Server", "McpServer"}
    /\ ALLOW_INSERT \in Flags
    /\ ALLOW_UPDATE \in Flags
    /\ ALLOW_DELETE \in Flags
    /\ env \in Envs
    /\ pool = 0
    /\ pools = <<>>
    /\ req = [i \in Slots |-> Idle]
    /\ call = [fn |-> "none"]

Fixed == <<api, ALLOW_INSERT, ALLOW_UPDATE, ALLOW_DELETE, env, call>>

\* getPool that also rebuilds when the current pool's server does not answer
getPoolRebuildsUnusable ==
    IF pool = 0 \/ ~Usable(pool)
    THEN /\ pools' = Append(pools, NewPool(getConnectionConfig))
         /\ pool' = Len(pools) + 1
    ELSE UNCHANGED <<pool, pools>>

\* getPool without the test of line 778
getPoolAlwaysNew ==
    /\ pools' = Append(pools, NewPool(getConnectionConfig))
    /\ pool' = Len(pools) + 1

\* index.ts:777-782: getPool(); its value is pool'
getPool ==
    IF pool = 0
    THEN /\ pools' = Append(pools, NewPool(getConnectionConfig))
         /\ pool' = Len(pools) + 1
    ELSE UNCHANGED <<pool, pools>>

\* a request arrives and its handler is entered
Dispatch(i) ==
    /\ req[i].pc = "idle"
    /\ Len(pools) + Cardinality(InFlight) < MaxPools
    /\ \E op \in ToolNames : \E a \in ArgsOf(op, api) :
           req' = [req EXCEPT ![i] = NewCall([op |-> op, args |-> a])]
    /\ UNCHANGED <<pool, pools, Fixed>>

\* a request arrives while others may be in flight; the slots are
\* interchangeable, so it takes the first idle one
RaceDispatch(i) ==
    /\ req[i].pc = "idle"
    /\ \A j \in 1..(i - 1) : req[j].pc # "idle"
    /\ Len(pools) + Cardinality(InFlight) < MaxPools
    /\ \E op \in RaceTools : \E a \in RaceArgsOf(op) :
           req' = [req EXCEPT ![i] = NewCall([op |-> op, args |-> a])]
    /\ UNCHANGED <<pool, pools, Fixed>>

\* index.ts:673-674: the default branch of the Server handler's switch
UnknownTool(i) ==
    /\ req[i].pc = "start"
    /\ api = "Server"
    /\ req[i].op = "health_check"
    /\ req' = [req EXCEPT ![i] = Raise(@, "Unknown tool: " \o @.op)]
    /\ UNCHANGED <<pool, pools, Fixed>>

\* connect without lines 814-816: the existing pool is left open
ConnectStartKeepsOld(i) ==
    /\ req[i].pc = "start"
    /\ req[i].op = "connect"
    /\ pools' = Append(pools, NewPool(ConnectConfig(req[i].args)))
    /\ pool' = Len(pools) + 1
    /\ req' = [req EXCEPT ![i] = [@ EXCEPT !.pc = "probing", !.old = pool,
                                  !.made = pool']]
    /\ UNCHANGED Fixed

\* connect that waits until no other call is between getPool and its result
ConnectStartSerialized(i) ==
    /\ req[i].pc = "start"
    /\ req[i].op = "connect"
    /\ \A j \in Slots \ {i} : req[j].pc \in {"idle", "start", "done"}
    /\ IF pool # 0
       THEN /\ pools' = [pools EXCEPT ![pool].closed = TRUE]
            /\ req' = [req EXCEPT ![i] = [@ EXCEPT !.pc = "ending", !.old = pool]]
            /\ UNCHANGED pool
       ELSE /\ pools' = Append(pools, NewPool(ConnectConfig(req[i].args)))
            /\ pool' = Len(pools) + 1
            /\ req' = [req EXCEPT ![i] = [@ EXCEPT !.pc = "probing", !.made = pool']]
    /\ UNCHANGED Fixed

\* index.ts:802-821 (342-361): connect up to its first await, which is
\* pool.end() when a pool exists and pool.getConnection() otherwise
ConnectStart(i) ==
    /\ req[i].pc = "start"
    /\ req[i].op = "connect"
    /\ IF pool # 0
       THEN /\ pools' = [pools EXCEPT ![pool].closed = TRUE]
            /\ req' = [req EXCEPT ![i] = [@ EXCEPT !.pc = "ending", !.old = pool]]
            /\ UNCHANGED pool
       ELSE /\ pools' = Append(pools, NewPool(ConnectConfig(req[i].args)))
            /\ pool' = Len(pools) + 1
            /\ req' = [req EXCEPT ![i] = [@ EXCEPT !.pc = "probing", !.made = pool']]
    /\ UNCHANGED Fixed

\* index.ts:815-821: pool.end() has resolved; the new pool is constructed
ConnectEnded(i) ==
    /\ req[i].pc = "ending"
    /\ pools' = Append(pools, NewPool(ConnectConfig(req[i].args)))
    /\ pool' = Len(pools) + 1
    /\ req' = [req EXCEPT ![i] = [@ EXCEPT !.pc = "probing", !.made = pool']]
    /\ UNCHANGED Fixed

\* index.ts:815: pool.end() has rejected
ConnectEndFailed(i) ==
    /\ req[i].pc = "ending"
    /\ req' = [req EXCEPT ![i] = Raise(@, EndFailedMessage)]
    /\ UNCHANGED <<pool, pools, Fixed>>

\* connect without lines 821-822: success without the probe
ConnectProbedUnprobed(i) ==
    /\ req[i].pc = "probing"
    /\ req' = [req EXCEPT ![i] = Return(@)]
    /\ UNCHANGED <<pool, pools, Fixed>>

\* connect that reads the three flags anew when it succeeds
ConnectProbedReloadsFlags(i) ==
    /\ req[i].pc = "probing"
    /\ Usable(req[i].made)
    /\ req' = [req EXCEPT ![i] = Return(@)]
    /\ ALLOW_INSERT' = TRUE /\ ALLOW_UPDATE' = TRUE /\ ALLOW_DELETE' = TRUE
    /\ UNCHANGED <<pool, pools, api, env, call>>

\* index.ts:821-839: the probe got a connection, released at once
ConnectProbed(i) ==
    /\ req[i].pc = "probing"
    /\ Usable(req[i].made)
    /\ req' = [req EXCEPT ![i] = Return(@)]
    /\ UNCHANGED <<pool, pools, Fixed>>

\* index.ts:821: pool.getConnection() has rejected
ConnectProbeFailed(i) ==
    /\ req[i].pc = "probing"
    /\ ~Usable(req[i].made)
    /\ req' = [req EXCEPT ![i] =
                 Raise([@ EXCEPT !.probeFailed = TRUE],
                       IF pools[@.made].closed THEN PoolClosedMessage
                       ELSE ConnectionRefusedMessage)]
    /\ UNCHANGED <<pool, pools, Fixed>>

\* index.ts:851-855: query of McpServer validates, then awaits getPool();
\* index.ts:374-375: query of Server awaits getPool() at once
QueryStart(i) ==
    /\ req[i].pc = "start"
    /\ req[i].op = "query"
    /\ LET v == IF api = "McpServer" THEN validateReadOnlyQuery(req[i].args.sql[1])
                ELSE NoThrow
       IN IF v.threw
          THEN /\ req' = [req EXCEPT ![i] = Raise(@, v.message)]
               /\ UNCHANGED <<pool, pools>>
          ELSE /\ getPool
               /\ req' = [req EXCEPT ![i] = [@ EXCEPT !.pc = "gotPool", !.p = pool',
                                             !.made = IF pool = 0 THEN pool' ELSE 0]]
    /\ UNCHANGED Fixed

\* index.ts:856 (379): p.query(sql, params)
QueryRun(i) ==
    /\ req[i].pc = "gotPool"
    /\ req[i].op = "query"
    /\ req' = [req EXCEPT ![i] = Submit(@, @.args.sql[1])]
    /\ UNCHANGED <<pool, pools, Fixed>>

\* every other handler starts with  const p = await getPool()
\* (index.ts:884, 915, 941, 974, 1021, 1064, 1118, 1147, 1177, 1203, 1233,
\* 1274, 1305)
ToolStart(i) ==
    /\ req[i].pc = "start"
    /\ req[i].op \notin {"connect", "query"}
    /\ api = "Server" => req[i].op # "health_check"
    /\ getPool
    /\ req' = [req EXCEPT ![i] = [@ EXCEPT !.pc = "gotPool", !.p = pool',
                                  !.made = IF pool = 0 THEN pool' ELSE 0]]
    /\ UNCHANGED Fixed

\* execute without the call of line 887
ExecuteRunUnchecked(i) ==
    /\ req[i].pc = "gotPool"
    /\ req[i].op = "execute"
    /\ IF req[i].args.sql = Undefined
       THEN req' = [req EXCEPT ![i] =
                      Raise(@, "Cannot read properties of undefined (reading 'trim')")]
       ELSE req' = [req EXCEPT ![i] = Submit(@, @.args.sql[1])]
    /\ UNCHANGED <<pool, pools, Fixed>>

\* index.ts:887-889 (397-399): execute checks the permission, then p.execute
ExecuteRun(i) ==
    /\ req[i].pc = "gotPool"
    /\ req[i].op = "execute"
    /\ IF req[i].args.sql = Undefined
       THEN req' = [req EXCEPT ![i] =
                      Raise(@, "Cannot read properties of undefined (reading 'trim')")]
       ELSE LET v == checkSqlPermission(req[i].args.sql[1]) IN
            IF v.threw
            THEN req' = [req EXCEPT ![i] = Raise(@, v.message)]
            ELSE req' = [req EXCEPT ![i] = Submit(@, @.args.sql[1])]
    /\ UNCHANGED <<pool, pools, Fixed>>

\* the statement tools with the loop of the read-only check on the statement
\* they built
ToolRunReadOnly(i) ==
    /\ req[i].pc = "gotPool"
    /\ req[i].op \in StatementTools
    /\ LET b == BuildStatement(req[i])
           v == IF b.threw THEN NoThrow ELSE ReadOnlyLoop(b.sql, 1)
       IN IF b.threw
          THEN req' = [req EXCEPT ![i] = Raise(@, b.message)]
          ELSE IF v.threw
          THEN req' = [req EXCEPT ![i] = Raise(@, v.message)]
          ELSE req' = [req EXCEPT ![i] = Submit(@, b.sql)]
    /\ UNCHANGED <<pool, pools, Fixed>>

\* the statement tools build their statement and pass it to the pool
ToolRun(i) ==
    /\ req[i].pc = "gotPool"
    /\ req[i].op \in StatementTools
    /\ LET b == BuildStatement(req[i]) IN
       IF b.threw
       THEN req' = [req EXCEPT ![i] = Raise(@, b.message)]
       ELSE req' = [req EXCEPT ![i] = Submit(@, b.sql)]
    /\ UNCHANGED <<pool, pools, Fixed>>

\* the pool can carry the statement of call c to the backing store
Served(c) == ~c.tornDown /\ ServerAccepts(pools[c.p].config)

\* the awaited p.query / p.execute resolves
StatementSucceeded(i) ==
    /\ req[i].pc = "executing"
    /\ Served(req[i])
    /\ IF req[i].op = "health_check" /\ Len(req[i].sent) = 1
       THEN \* index.ts:1316
            req' = [req EXCEPT ![i] =
                      Submit(@, "SHOW STATUS WHERE Variable_name IN ('Uptime', 'Threads_connected', 'Questions')")]
       ELSE req' = [req EXCEPT ![i] = Return(@)]
    /\ UNCHANGED <<pool, pools, Fixed>>

\* the awaited p.query / p.execute rejects
StatementFailed(i) ==
    /\ req[i].pc = "executing"
    /\ req' = [req EXCEPT ![i] =
                 Raise(@, IF @.tornDown THEN PoolClosedMessage
                          ELSE IF ~ServerAccepts(pools[@.p].config)
                               THEN ConnectionRefusedMessage
                               ELSE StatementFailedMessage)]
    /\ UNCHANGED <<pool, pools, Fixed>>

\* index.ts:1308: health_check asks the pool for a connection
HealthConnect(i) ==
    /\ req[i].pc = "gotPool"
    /\ req[i].op = "health_check"
    /\ req' = [req EXCEPT ![i] = [@ EXCEPT !.pc = "connecting"]]
    /\ UNCHANGED <<pool, pools, Fixed>>

\* index.ts:1308-1309: the connection is checked out; ping is sent
HealthConnected(i) ==
    /\ req[i].pc = "connecting"
    /\ Usable(req[i].p)
    /\ req' = [req EXCEPT ![i] = [@ EXCEPT !.pc = "pinging", !.holds = @ + 1]]
    /\ UNCHANGED <<pool, pools, Fixed>>

\* index.ts:1308: p.getConnection() rejects
HealthConnectFailed(i) ==
    /\ req[i].pc = "connecting"
    /\ ~Usable(req[i].p)
    /\ req' = [req EXCEPT ![i] =
                 Raise(@, IF pools[@.p].closed THEN PoolClosedMessage
                          ELSE ConnectionRefusedMessage)]
    /\ UNCHANGED <<pool, pools, Fixed>>

\* index.ts:1309-1315: ping resolved; release, then the version query
HealthPinged(i) ==
    /\ req[i].pc = "pinging"
    /\ ~pools[req[i].p].closed
    /\ req' = [req EXCEPT ![i] =
                 Submit([@ EXCEPT !.holds = @ - 1], "SELECT VERSION() as version")]
    /\ UNCHANGED <<pool, pools, Fixed>>

\* index.ts:1309: ping rejected; the handler leaves before line 1310
HealthPingFailed(i) ==
    /\ req[i].pc = "pinging"
    /\ req' = [req EXCEPT ![i] = Raise(@, PingFailedMessage)]
    /\ UNCHANGED <<pool, pools, Fixed>>

\* the result has gone back to the caller; a closed pool that nothing refers
\* to any more is garbage
Reply(i) ==
    /\ req[i].pc = "done"
    /\ req' = [req EXCEPT ![i] = Idle]
    /\ pools' = [id \in 1..Len(pools) |->
                   IF pools[id].closed /\ id # pool
                      /\ \A j \in Slots \ {i} :
                            req[j].pc # "idle" => id \notin {req[j].p, req[j].made, req[j].old}
                   THEN Collected ELSE pools[id]]
    /\ UNCHANGED <<pool, Fixed>>

\* one tool call at a time
Next ==
    \/ Dispatch(1)
    \/ UnknownTool(1)
    \/ ConnectStart(1)
    \/ ConnectEnded(1)
    \/ ConnectEndFailed(1)
    \/ ConnectProbed(1)
    \/ ConnectProbeFailed(1)
    \/ QueryStart(1)
    \/ QueryRun(1)
    \/ ToolStart(1)
    \/ ExecuteRun(1)
    \/ ToolRun(1)
    \/ StatementSucceeded(1)
    \/ StatementFailed(1)
    \/ HealthConnect(1)
    \/ HealthConnected(1)
    \/ HealthConnectFailed(1)
    \/ HealthPinged(1)
    \/ HealthPingFailed(1)
    \/ Reply(1)

Spec == Init /\ [][Next]_vars

\* the driver settles every promise a handler awaits and the event loop then
\* resumes the handler: a call in flight is not left waiting for ever
FairSpec == Spec /\ WF_vars(Next /\ req[1].pc # "idle")

\* tool calls interleaved at their awaits
RaceInit ==
    /\ Init
    /\ env = EnvUnset
    /\ ALLOW_INSERT /\ ALLOW_UPDATE /\ ALLOW_DELETE

RaceNext ==
    \E i \in Slots :
        \/ RaceDispatch(i)
        \/ ConnectStart(i)
        \/ ConnectEnded(i)
        \/ ConnectEndFailed(i)
        \/ ConnectProbed(i)
        \/ ConnectProbeFailed(i)
        \/ QueryStart(i)
        \/ QueryRun(i)
        \/ StatementSucceeded(i)
        \/ StatementFailed(i)
        \/ Reply(i)

RaceSpec == RaceInit /\ [][RaceNext]_vars

(***************************************************************************)
(* The pure functions applied to drawn inputs                              *)
(***************************************************************************)

\* A statement text is  lead \o word (in some letter case) \o tail.
Leads == {"", " ", "\n\t ", "/* c */ "}
Words ==
    { "INSERT", "UPDATE", "DELETE", "DROP", "CREATE", "ALTER", "TRUNCATE", "RENAME",
      "REPLACE", "GRANT", "REVOKE", "LOCK", "UNLOCK", "SELECT", "SHOW", "DESCRIBE",
      "USE", "WITH", "SET" }
Cases == {"upper", "lower", "capital"}
Tails == {"", " x ", "S x", "\n"}

InCase(word, case) ==
    CASE case = "upper" -> word
      [] case = "lower" -> toLowerCase(word)
      [] OTHER -> CharAt(word, 1) \o toLowerCase(Tail(word))

StatementText(lead, word, case, tail) == lead \o InCase(word, case) \o tail

\* column definitions: every combination of the four modifiers
AllColumns ==
    { [ name |-> "c", type |-> "INT", nullable |-> n, primaryKey |-> k,
        autoIncrement |-> a, default |-> d ] :
        n \in {Undefined, Some(TRUE), Some(FALSE)},
        k \in {Undefined, Some(TRUE), Some(FALSE)},
        a \in {Undefined, Some(TRUE), Some(FALSE)},
        d \in {Undefined, Some("0"), Some("")} }

\* the README's three columns and one with every modifier
FewColumns ==
    { ReadmeColumns[1], ReadmeColumns[2],
      [ name |-> "created_at", type |-> "TIMESTAMP", nullable |-> Undefined,
        primaryKey |-> Undefined, autoIncrement |-> Undefined,
        default |-> Some("CURRENT_TIMESTAMP") ],
      [ name |-> "n", type |-> "BIGINT", nullable |-> Some(FALSE),
        primaryKey |-> Some(TRUE), autoIncrement |-> Some(TRUE), default |-> Some("1") ] }

ColumnLists ==
    {<<>>} \cup {<<c>> : c \in AllColumns}
    \cup UNION {[1..n -> FewColumns] : n \in 2..MaxColumns}

FnInit ==
    /\ Init
    /\ api = "McpServer"

FnFixed == <<api, ALLOW_INSERT, ALLOW_UPDATE, ALLOW_DELETE, env, pool, pools, req>>

\* one application per run: the function is given an input, its value is kept
CallCheckSqlPermission ==
    /\ call.fn = "none"
    /\ \E lead \in Leads, word \in Words, case \in Cases, tail \in Tails :
         call' = [ fn |-> "checkSqlPermission", lead |-> lead, word |-> word,
                   case |-> case, tail |-> tail,
                   out |-> checkSqlPermission(StatementText(lead, word, case, tail)) ]
    /\ UNCHANGED FnFixed

CallValidateReadOnlyQuery ==
    /\ call.fn = "none"
    /\ \E lead \in Leads, word \in Words, case \in Cases, tail \in Tails :
         call' = [ fn |-> "validateReadOnlyQuery", lead |-> lead, word |-> word,
                   case |-> case, tail |-> tail,
                   out |-> validateReadOnlyQuery(StatementText(lead, word, case, tail)) ]
    /\ UNCHANGED FnFixed

CallCreateTable ==
    /\ call.fn = "none"
    /\ \E table \in {"t"}, columns \in ColumnLists,
          database \in {Undefined, Some("d"), Some("")} :
         call' = [ fn |-> "create_table", table |-> table, columns |-> columns,
                   database |-> database,
                   out |-> CreateTableSql(table, columns, database) ]
    /\ UNCHANGED FnFixed

\* arguments of the statement tools in which every supplied text is distinct
\* and is part of no other supplied text and of no SQL keyword
Databases == {Undefined, Some("db1"), Some("")}

MarkedColumns ==
    { <<[ name |-> "c3", type |-> "INT", nullable |-> Undefined,
          primaryKey |-> Undefined, autoIncrement |-> Undefined, default |-> Some("0") ]>>,
      <<[ name |-> "c3", type |-> "INT", nullable |-> Some(FALSE),
          primaryKey |-> Some(TRUE), autoIncrement |-> Undefined, default |-> Undefined ],
        [ name |-> "c6", type |-> "TEXT", nullable |-> Undefined,
          primaryKey |-> Undefined, autoIncrement |-> Undefined, default |-> Some("0") ]>> }

StatementArgsOf(op) ==
    CASE op = "list_databases" -> {NoDatabase}
      [] op = "list_tables" -> {[database |-> d] : d \in Databases}
      [] op \in {"describe_table", "drop_table"} ->
           {[table |-> "tb2", database |-> d] : d \in Databases}
      [] op = "create_table" ->
           {[table |-> "tb2", columns |-> c, database |-> d] :
              c \in MarkedColumns, d \in Databases}
      [] op = "alter_table" ->
           {[ table |-> "tb2", operation |-> o, column |-> "c3", definition |-> f,
              newName |-> n, database |-> d ] :
              o \in {"ADD", "DROP", "MODIFY", "RENAME"},
              f \in {Undefined, Some("INT NOT NULL")}, n \in {Undefined, Some("n5")},
              d \in Databases}
      [] op = "create_database" ->
           {[database |-> Some("db1"), charset |-> c, collation |-> l] :
              c \in {Undefined, Some("cs7")}, l \in {Undefined, Some("co8")}}
      [] op \in {"drop_database", "use_database"} -> {[database |-> Some("db1")]}
      [] op = "create_index" ->
           {[ table |-> "tb2", indexName |-> "ix4", columns |-> c, unique |-> u,
              database |-> d ] :
              c \in {<<"c3">>, <<"c6", "c3">>},
              u \in {Undefined, Some(TRUE), Some(FALSE)}, d \in Databases}
      [] op = "drop_index" ->
           {[table |-> "tb2", indexName |-> "ix4", database |-> d] : d \in Databases}

\* a statement tool builds its statement from its arguments
CallBuildStatement ==
    /\ call.fn = "none"
    /\ \E op \in StatementTools : \E a \in StatementArgsOf(op) :
         call' = [ fn |-> "BuildStatement", op |-> op, args |-> a,
                   out |-> BuildStatement([op |-> op, args |-> a]) ]
    /\ UNCHANGED FnFixed

FnNext ==
    \/ CallCheckSqlPermission
    \/ CallValidateReadOnlyQuery
    \/ CallCreateTable
    \/ CallBuildStatement

FnSpec == FnInit /\ [][FnNext]_vars

(***************************************************************************)
(* Claims                                                                  *)
(***************************************************************************)

Active(i) == req[i].pc # "idle"
Done(i) == req[i].pc = "done"

\* the text begins, after white space and in any letter case, with keyword k
BeginsWith(c, k) ==
    /\ \A n \in 1..Len(c.lead) : CharAt(c.lead, n) \in {" ", "\t", "\n", "\r"}
    /\ c.word = k

\* the first white-space-delimited token of the trimmed text is keyword k
LeadingKeywordIs(c, k) ==
    /\ BeginsWith(c, k)
    /\ c.tail = "" \/ CharAt(c.tail, 1) \in {" ", "\t", "\n", "\r"}

\* the statement, trimmed and upper-cased, begins with a keyword whose flag is off
DeniedByPolicy(sql) ==
    LET n == toUpperCase(trim(sql)) IN
    \/ startsWith(n, "INSERT") /\ ~ALLOW_INSERT
    \/ startsWith(n, "UPDATE") /\ ~ALLOW_UPDATE
    \/ startsWith(n, "DELETE") /\ ~ALLOW_DELETE

Denylist ==
    { "INSERT", "UPDATE", "DELETE", "DROP", "CREATE", "ALTER", "TRUNCATE", "RENAME",
      "REPLACE", "GRANT", "REVOKE", "LOCK", "UNLOCK" }

Denylisted(sql) == \E k \in Denylist : startsWith(toUpperCase(trim(sql)), k)

\* C1: an execute call whose statement begins with INSERT, UPDATE or DELETE
\* while that keyword's flag is false passes no statement to the pool, and
\* when it has ended its one result is a failure.
C1_DeniedExecuteSendsNothing ==
    \A i \in Slots :
        ( /\ Active(i)
          /\ req[i].op = "execute"
          /\ req[i].args.sql # Undefined
          /\ DeniedByPolicy(req[i].args.sql[1]) )
        => /\ req[i].sent = <<>>
           /\ Done(i) => Len(req[i].results) = 1 /\ req[i].results[1].isError

C1_Witness ==
    \E i \in Slots :
        /\ Done(i)
        /\ req[i].op = "execute"
        /\ req[i].args.sql = Some("Update t set a = 1")
        /\ ~ALLOW_UPDATE /\ ALLOW_INSERT /\ ALLOW_DELETE
        /\ req[i].sent = <<>>
        /\ req[i].results[1].isError

\* C2: no statement that begins with a denylisted keyword is passed to the
\* pool by a query call.
C2_QueryNeverSendsDenylisted ==
    \A i \in Slots :
        (Active(i) /\ req[i].op = "query")
        => \A k \in 1..Len(req[i].sent) : ~Denylisted(req[i].sent[k])

\* C3: at most one pool has been constructed and not closed.
C3_AtMostOneLivePool == Cardinality(LivePools) <= 1

endsWith(s, k) == Len(s) >= Len(k) /\ SubSeq(s, Len(s) - Len(k) + 1, Len(s)) = k

\* C4: a call has produced no result until it ends and exactly one when it
\* has ended; an error raised in the handler ends the call with a failure
\* result that holds the error's message; every call that was dispatched ends.
C4_OneResult ==
    \A i \in Slots :
        Active(i)
        => /\ Len(req[i].results) = (IF Done(i) THEN 1 ELSE 0)
           /\ req[i].thrown # Undefined
                => /\ Done(i)
                   /\ req[i].results[1].isError
                   /\ endsWith(req[i].results[1].text, req[i].thrown[1])
           /\ (Done(i) /\ req[i].thrown = Undefined) => ~req[i].results[1].isError

C4_EveryDispatchEndsWithOneResult ==
    /\ []C4_OneResult
    /\ \A i \in Slots : (req[i].pc = "start") ~> (req[i].pc = "done")

C4_Witness ==
    \E i \in Slots :
        /\ Done(i)
        /\ api = "Server"
        /\ req[i].op = "create_table"
        /\ req[i].thrown = Some(StatementFailedMessage)
        /\ req[i].results = <<[isError |-> TRUE, text |-> "Error: ER_BACKING_STORE"]>>

\* C5 as amended: checkSqlPermission rejects exactly the statements that begin,
\* after white space and in any letter case, with INSERT while allowInsert is
\* false, with UPDATE while allowUpdate is false, or with DELETE while
\* allowDelete is false.
C5_RejectsExactlyDisabledPrefix ==
    call.fn = "checkSqlPermission"
    => ( call.out.threw <=>
           \/ BeginsWith(call, "INSERT") /\ ~ALLOW_INSERT
           \/ BeginsWith(call, "UPDATE") /\ ~ALLOW_UPDATE
           \/ BeginsWith(call, "DELETE") /\ ~ALLOW_DELETE )

\* C5 as stated: rejected exactly when the leading keyword, the first
\* white-space-delimited token, is INSERT, UPDATE or DELETE with its flag false.
C5_RejectsExactlyDisabledKeyword ==
    call.fn = "checkSqlPermission"
    => ( call.out.threw <=>
           \/ LeadingKeywordIs(call, "INSERT") /\ ~ALLOW_INSERT
           \/ LeadingKeywordIs(call, "UPDATE") /\ ~ALLOW_UPDATE
           \/ LeadingKeywordIs(call, "DELETE") /\ ~ALLOW_DELETE )

C5_Witness ==
    /\ call.fn = "checkSqlPermission"
    /\ call.lead = "\n\t " /\ call.word = "DELETE" /\ call.case = "lower"
    /\ call.tail = " x "
    /\ ~ALLOW_DELETE /\ ALLOW_INSERT /\ ALLOW_UPDATE
    /\ call.out.threw

\* C6: validateReadOnlyQuery rejects exactly the statements that begin, after
\* white space and in any letter case, with one of the 13 denylisted keywords,
\* and the error names that keyword; every other statement is accepted.
C6_ReadOnlyRejectsDenylist ==
    call.fn = "validateReadOnlyQuery"
    => /\ call.out.threw <=> \E k \in Denylist : BeginsWith(call, k)
       /\ call.out.threw => startsWith(call.out.message, call.word \o " operations are not allowed")
       /\ (call.word \in {"SELECT", "SHOW", "DESCRIBE"}) => ~call.out.threw

C6_Witness ==
    /\ call.fn = "validateReadOnlyQuery"
    /\ call.lead = " " /\ call.word = "UNLOCK" /\ call.case = "capital"
    /\ call.out.threw
    /\ startsWith(call.out.message, "UNLOCK operations")

\* what C7 expects of one field: the argument if supplied, else the default
Supplied(arg, default) == IF arg # Undefined THEN arg[1] ELSE default

\* C7: the configuration of the pool a connect call constructs holds, field by
\* field, the supplied argument, and the process default where none is supplied.
C7_ConnectMergesOverDefaults ==
    \A i \in Slots :
        (Active(i) /\ req[i].op = "connect" /\ req[i].made # 0)
        => LET a == req[i].args
               d == getConnectionConfig
           IN pools[req[i].made].config =
                [ host |-> Supplied(a.host, d.host),
                  port |-> Supplied(a.port, d.port),
                  user |-> Supplied(a.user, d.user),
                  password |-> Supplied(a.password, d.password),
                  database |-> IF a.database # Undefined THEN a.database ELSE d.database ]

\* C8: once a connect call's probe has failed, the call's result is a failure,
\* the pool it found is closed and is not the current pool, and the pool it
\* installed is not usable; the current pool is that pool unless a connect
\* call that ran later has installed its own.
C8_FailedProbeLeavesNoUsablePool ==
    \A i \in Slots :
        (Active(i) /\ req[i].op = "connect" /\ req[i].probeFailed)
        => /\ Done(i) /\ req[i].results[1].isError
           /\ req[i].old # 0 => pools[req[i].old].closed /\ pool # req[i].old
           /\ ~Usable(req[i].made)
           /\ pool >= req[i].made

C8_Witness ==
    \E i \in Slots :
        /\ Done(i)
        /\ req[i].op = "connect"
        /\ req[i].probeFailed
        /\ req[i].old # 0
        /\ pool = req[i].made
        /\ ~pools[pool].closed

\* C9: an alter_table call that lacks the companion field of its operation
\* passes no statement to the pool and ends with a failure.
C9_AlterWithoutCompanionFails ==
    \A i \in Slots :
        ( /\ Active(i)
          /\ req[i].op = "alter_table"
          /\ \/ req[i].args.operation \in {"ADD", "MODIFY"}
                /\ req[i].args.definition = Undefined
             \/ req[i].args.operation = "RENAME" /\ req[i].args.newName = Undefined )
        => /\ req[i].sent = <<>>
           /\ Done(i) => req[i].results[1].isError

\* the clause C10 describes for one column
Modifier(present, text) == IF present THEN text ELSE ""
ExpectedClause(col) ==
    BQ \o col.name \o BQ \o " " \o col.type
    \o Modifier(col.nullable = Some(FALSE), " NOT NULL")
    \o Modifier(col.autoIncrement = Some(TRUE), " AUTO_INCREMENT")
    \o Modifier(col.default # Undefined, " DEFAULT " \o Interpolate(col.default))
    \o Modifier(col.primaryKey = Some(TRUE), " PRIMARY KEY")

RECURSIVE ExpectedClauses(_, _)
ExpectedClauses(columns, n) ==
    IF n = 0 THEN ""
    ELSE IF n = 1 THEN ExpectedClause(columns[1])
    ELSE ExpectedClauses(columns, n - 1) \o ", " \o ExpectedClause(columns[n])

\* C10: create_table builds CREATE TABLE <target> (<clauses>), one clause per
\* column in input order joined by ", ", each clause the quoted name, the type
\* and then NOT NULL, AUTO_INCREMENT, DEFAULT <value>, PRIMARY KEY, each present
\* exactly when the column asks for it.
C10_CreateTableStatement ==
    call.fn = "create_table"
    => /\ call.out =
            "CREATE TABLE "
            \o (IF call.database \notin {Undefined, Some("")}
                THEN BQ \o call.database[1] \o BQ \o "." \o BQ \o call.table \o BQ
                ELSE BQ \o call.table \o BQ)
            \o " (" \o ExpectedClauses(call.columns, Len(call.columns)) \o ")"
       /\ (call.columns = ReadmeColumns /\ call.database = Undefined)
            => call.out = "CREATE TABLE 't' ('id' INT AUTO_INCREMENT PRIMARY KEY, 'email' VARCHAR(255) NOT NULL)"

C10_Witness ==
    /\ call.fn = "create_table"
    /\ Len(call.columns) = 2
    /\ call.columns[1].name = "created_at"
    /\ call.columns[2].name = "n"
    /\ call.out = "CREATE TABLE 't' ('created_at' TIMESTAMP DEFAULT CURRENT_TIMESTAMP, 'n' BIGINT NOT NULL AUTO_INCREMENT DEFAULT 1 PRIMARY KEY)"

\* the target of a table statement: the table name between back-quotes, after
\* the database name between back-quotes and a dot when a database is named
\* (an empty text names no database)
ExpectedTarget(a) ==
    IF a.database # Undefined /\ a.database[1] # ""
    THEN BQ \o a.database[1] \o BQ \o "." \o BQ \o a.table \o BQ
    ELSE BQ \o a.table \o BQ

\* C11: alter_table builds one statement, chosen by the operation: ADD COLUMN
\* and MODIFY COLUMN with the back-quoted column and the definition, DROP
\* COLUMN with the back-quoted column, RENAME COLUMN with the back-quoted
\* column, TO and the back-quoted new name, each on the target.
C11_AlterTableStatement ==
    (call.fn = "BuildStatement" /\ call.op = "alter_table")
    => LET a == call.args
           head == "ALTER TABLE " \o ExpectedTarget(a)
           col == BQ \o a.column \o BQ
       IN /\ ~call.out.threw
          /\ (a.operation = "ADD" /\ a.definition # Undefined)
               => call.out.sql = head \o " ADD COLUMN " \o col \o " " \o a.definition[1]
          /\ a.operation = "DROP"
               => call.out.sql = head \o " DROP COLUMN " \o col
          /\ (a.operation = "MODIFY" /\ a.definition # Undefined)
               => call.out.sql = head \o " MODIFY COLUMN " \o col \o " " \o a.definition[1]
          /\ (a.operation = "RENAME" /\ a.newName # Undefined)
               => call.out.sql = head \o " RENAME COLUMN " \o col \o " TO "
                                 \o BQ \o a.newName[1] \o BQ

C11_Witness ==
    /\ call.fn = "BuildStatement"
    /\ call.op = "alter_table"
    /\ call.args.operation = "RENAME"
    /\ call.args.database = Some("db1")
    /\ call.out.sql = "ALTER TABLE 'db1'.'tb2' RENAME COLUMN 'c3' TO 'n5'"

\* C12: create_index builds CREATE INDEX, with UNIQUE exactly when unique is
\* true, the back-quoted index name, ON the target and, in parentheses, the
\* back-quoted columns in input order joined by ", ".
C12_CreateIndexStatement ==
    (call.fn = "BuildStatement" /\ call.op = "create_index")
    => LET a == call.args
           cols == IF Len(a.columns) = 1 THEN BQ \o a.columns[1] \o BQ
                   ELSE BQ \o a.columns[1] \o BQ \o ", " \o BQ \o a.columns[2] \o BQ
       IN call.out.sql =
            "CREATE " \o Modifier(a.unique = Some(TRUE), "UNIQUE ") \o "INDEX "
            \o BQ \o a.indexName \o BQ \o " ON " \o ExpectedTarget(a)
            \o " (" \o cols \o ")"

C12_Witness ==
    /\ call.fn = "BuildStatement"
    /\ call.op = "create_index"
    /\ call.args.unique = Some(FALSE)
    /\ call.args.database = Some("db1")
    /\ call.out.sql = "CREATE INDEX 'ix4' ON 'db1'.'tb2' ('c6', 'c3')"

\* statements as the permission check sees them, trimmed and in upper case
NormalizedSql ==
    {"SELECT 1", "INSERT INTO T VALUES (1)", "UPDATE T SET A = 1", "DELETE FROM T"}

\* C13: no step changes one of the three flags, and the permission check gives
\* every statement the same outcome after the step as before it.
C13_FlagsFixed ==
    [][ /\ ALLOW_INSERT' = ALLOW_INSERT
        /\ ALLOW_UPDATE' = ALLOW_UPDATE
        /\ ALLOW_DELETE' = ALLOW_DELETE
        /\ \A q \in NormalizedSql : PermissionOf(q)' = PermissionOf(q) ]_vars

C13_Witness ==
    /\ ~ALLOW_INSERT /\ ~ALLOW_UPDATE /\ ~ALLOW_DELETE
    /\ Done(1)
    /\ req[1].op = "connect"
    /\ req[1].args.host = Some("h2")
    /\ req[1].old # 0
    /\ ~req[1].results[1].isError
    /\ checkSqlPermission("DELETE FROM t").threw

\* C14 as amended: whatever the flags, checkSqlPermission accepts every
\* statement that does not begin, after white space and in any letter case,
\* with INSERT, UPDATE or DELETE.
C14_AcceptsOtherPrefixes ==
    ( /\ call.fn = "checkSqlPermission"
      /\ \A k \in {"INSERT", "UPDATE", "DELETE"} : ~BeginsWith(call, k) )
    => ~call.out.threw

\* C14 as stated: whatever the flags, checkSqlPermission accepts every
\* statement whose first white-space-delimited token is not exactly INSERT,
\* UPDATE or DELETE.
C14_AcceptsOtherKeywords ==
    ( /\ call.fn = "checkSqlPermission"
      /\ \A k \in {"INSERT", "UPDATE", "DELETE"} : ~LeadingKeywordIs(call, k) )
    => ~call.out.threw

C14_Witness ==
    /\ call.fn = "checkSqlPermission"
    /\ ~ALLOW_INSERT /\ ~ALLOW_UPDATE /\ ~ALLOW_DELETE
    /\ call.lead = " " /\ call.word = "DROP" /\ call.case = "lower" /\ call.tail = " x "
    /\ ~call.out.threw

\* text v stands in text sql at position i
OccursAt(sql, v, i) == i + Len(v) - 1 <= Len(sql) /\ SubSeq(sql, i, i + Len(v) - 1) = v

\* wherever v stands in sql it stands between two back-quotes
QuotedEverywhere(sql, v) ==
    \A i \in 1..Len(sql) :
        OccursAt(sql, v, i)
        => /\ i > 1 /\ CharAt(sql, i - 1) = BQ
           /\ i + Len(v) <= Len(sql) /\ CharAt(sql, i + Len(v)) = BQ

\* the optional text argument f of a, if it is supplied and not empty
TextOf(a, f) ==
    IF f \in DOMAIN a /\ a[f] # Undefined /\ a[f][1] # "" THEN {a[f][1]} ELSE {}

\* the identifiers a call of a statement tool supplies
IdentifiersOf(op, a) ==
    TextOf(a, "database") \cup TextOf(a, "newName")
    \cup (IF "table" \in DOMAIN a THEN {a.table} ELSE {})
    \cup (IF "column" \in DOMAIN a THEN {a.column} ELSE {})
    \cup (IF "indexName" \in DOMAIN a THEN {a.indexName} ELSE {})
    \cup (IF op = "create_index" THEN {a.columns[k] : k \in 1..Len(a.columns)} ELSE {})
    \cup (IF op = "create_table" THEN {a.columns[k].name : k \in 1..Len(a.columns)} ELSE {})

\* the supplied texts that are neither an identifier, nor a column type, a
\* column definition or a default value
OtherTextsOf(op, a) == TextOf(a, "charset") \cup TextOf(a, "collation")

\* C15: in the statement a statement tool builds, every supplied identifier
\* stands between back-quotes wherever it stands, and no supplied text other
\* than a column type or definition and a default value stands in it unquoted.
C15_OnlyTypesAndDefaultsUnquoted ==
    (call.fn = "BuildStatement" /\ ~call.out.threw)
    => \A v \in IdentifiersOf(call.op, call.args) \cup OtherTextsOf(call.op, call.args) :
           QuotedEverywhere(call.out.sql, v)

\* the schema, database and index tools
DdlTools ==
    { "create_table", "alter_table", "drop_table", "create_database", "drop_database",
      "use_database", "create_index", "drop_index" }

\* an error message of the permission check or of the read-only check
GateMessage(m) == \E k \in Denylist : startsWith(m, k \o " operations are ")

\* C16: whatever the flags, a call of a schema, database or index tool raises
\* no error of the permission check or of the read-only check, and once it has
\* passed its await of getPool the statement it built is the one statement it
\* has passed to the pool.
C16_DdlRunsNoCheck ==
    \A i \in Slots :
        (Active(i) /\ req[i].op \in DdlTools)
        => /\ req[i].thrown # Undefined => ~GateMessage(req[i].thrown[1])
           /\ (req[i].pc \in {"executing", "done"} /\ ~BuildStatement(req[i]).threw)
                => req[i].sent = <<BuildStatement(req[i]).sql>>

C16_Witness ==
    /\ ~ALLOW_INSERT /\ ~ALLOW_UPDATE /\ ~ALLOW_DELETE
    /\ Done(1)
    /\ req[1].op = "drop_table"
    /\ req[1].sent = <<"DROP TABLE 'd'.'t'">>
    /\ ~req[1].results[1].isError

\* C17: a connect call that has been dispatched can take its first step, which
\* ends the current pool, whatever the other calls in flight are doing; the
\* witness is a query call that has passed its statement to a pool a connect
\* call still in flight had ended.
C17_ConnectNotSerialized ==
    \A i \in Slots :
        (Active(i) /\ req[i].pc = "start" /\ req[i].op = "connect")
        => ENABLED ConnectStart(i)

C17_Witness ==
    \E i, j \in Slots :
        /\ i # j
        /\ Active(i) /\ req[i].op = "query"
        /\ req[i].tornDown
        /\ req[i].sent = <<"SELECT 1">>
        /\ Active(j) /\ req[j].op = "connect"
        /\ req[j].old = req[i].p

\* C18: while a connect call awaits the end of the pool it found, that pool is
\* closed and the new pool is not yet constructed; once the new pool is
\* constructed the pool it found is closed; and the call reports success only
\* when the new pool has given it a connection, which it has released.
C18_EndThenCreateThenProbe ==
    \A i \in Slots :
        (Active(i) /\ req[i].op = "connect")
        => /\ req[i].pc = "ending"
                => req[i].old # 0 /\ pools[req[i].old].closed /\ req[i].made = 0
           /\ (req[i].made # 0 /\ req[i].old # 0)
                => pools[req[i].old].closed /\ req[i].made > req[i].old
           /\ (Done(i) /\ ~req[i].results[1].isError)
                => /\ req[i].made # 0
                   /\ ServerAccepts(pools[req[i].made].config)
                   /\ req[i].holds = 0

C18_Witness ==
    /\ Done(1)
    /\ req[1].op = "connect"
    /\ req[1].old # 0
    /\ pools[req[1].old].closed
    /\ pool = req[1].made
    /\ Usable(pool)
    /\ req[1].results = <<[isError |-> FALSE, text |-> "Successfully connected to MySQL server"]>>

\* C19: an execute or query call that its check has rejected has obtained no
\* pool and has constructed none.
C19_RejectedBeforePool ==
    \A i \in Slots :
        ( /\ Active(i)
          /\ req[i].op \in {"execute", "query"}
          /\ req[i].thrown # Undefined
          /\ GateMessage(req[i].thrown[1]) )
        => req[i].p = 0 /\ req[i].made = 0

\* C20: the step in which a call gets its pool from getPool gives it a pool,
\* the current one; that pool is newly constructed from the default
\* configuration when there was none, and the pool there was otherwise, with
\* no pool constructed.  When a pool exists, only a step of a connect call
\* changes the pool reference or closes a pool.
C20_GetPoolAndConnectOnly ==
    [][ /\ \A i \in Slots :
              (req[i].pc = "start" /\ req'[i].pc = "gotPool")
              => /\ req'[i].p # 0 /\ req'[i].p = pool'
                 /\ pool = 0 => /\ Len(pools') = Len(pools) + 1
                                /\ pool' = Len(pools')
                                /\ pools'[pool'] = NewPool(getConnectionConfig)
                 /\ pool # 0 => pool' = pool /\ pools' = pools
        /\ ( /\ pool # 0
             /\ \/ pool' # pool
                \/ \E id \in 1..Len(pools) : ~pools[id].closed /\ pools'[id].closed )
           => \E i \in Slots :
                  req[i].pc # "idle" /\ req[i].op = "connect" /\ req'[i] # req[i] ]_vars

C20_Witness ==
    /\ req[1].pc = "gotPool"
    /\ req[1].op = "execute"
    /\ req[1].made = 0
    /\ req[1].p = pool
    /\ pool # 0
    /\ ~pools[pool].closed
    /\ pools[pool].config.host = "h2"

\* C21: a call that has ended, with a success or with a failure, holds no
\* connection it has checked out of the pool.
C21_EndedCallHoldsNoConnection ==
    \A i \in Slots : Done(i) => req[i].holds = 0

\* an open pool whose server does not answer
FailedPool(id) == id # 0 /\ ~pools[id].closed /\ ~ServerAccepts(pools[id].config)

\* C22: when the probe of a connect call has failed, the pool reference is the
\* open pool that call constructed from its configuration; an open pool whose
\* server does not answer stays the pool reference as long as it is open, that
\* is until a connect call ends it; and a call of any other tool that gets a
\* pool while the pool reference is such a pool has got that pool and has
\* constructed none.
C22_FailedPoolStaysCurrent ==
    /\ \A id \in 1..Len(pools) : FailedPool(id) => pool = id
    /\ \A i \in Slots :
          /\ (Active(i) /\ req[i].op = "connect" /\ req[i].probeFailed)
               => /\ req[i].made # 0
                  /\ pool = req[i].made
                  /\ pools[pool] = NewPool(ConnectConfig(req[i].args))
          /\ (Active(i) /\ req[i].op # "connect" /\ req[i].p # 0 /\ FailedPool(pool))
               => req[i].p = pool /\ req[i].made = 0

C22_Witness ==
    /\ Done(1)
    /\ req[1].op = "describe_table"
    /\ FailedPool(pool)
    /\ pools[pool].config.host = "down.example"
    /\ req[1].p = pool
    /\ req[1].sent = <<"DESCRIBE 't'">>
    /\ req[1].results[1].isError

====
